---- MODULE Spec2Model ----
(***************************************************************************)
(* FIT -> CSV converter (src/main.py): lap extraction (collect_laps), the  *)
(* cursor-based interval classifier (map_record_to_lap_index) and the two  *)
(* table writers (write_records_csv, write_laps_csv).                      *)
(*                                                                         *)
(* Python values are modelled with their dynamic type: None is the empty   *)
(* tuple, every other value is a pair <<type, payload>>.  A datetime is    *)
(* <<"datetime", t>> with t a whole number of seconds, so that the sort    *)
(* key `start or 0` (an int for None, a datetime otherwise) and the        *)
(* isinstance checks keep their meaning.  List positions (i, cur_idx, ptr) *)
(* are plain integers, 0-based as in the source.                           *)
(*                                                                         *)
(* Six specifications share the state:                                     *)
(*   SpecLapFields  the body of the loop of collect_laps on one message;   *)
(*   SpecLaps       collect_laps over a stream of lap messages, the        *)
(*                  intervals built from its result, write_laps_csv;       *)
(*   SpecClassify   one call of map_record_to_lap_index on ordered         *)
(*                  intervals, any timestamp and any cursor;               *)
(*   SpecScan       the same call on fewer intervals over a longer time    *)
(*                  line;                                                  *)
(*   SpecRecords    the loop of write_records_csv over a stream of record  *)
(*                  messages and an interval sequence collect_laps can     *)
(*                  return;                                                *)
(*   SpecConvert    convert on a FIT file of lap and record messages in    *)
(*                  any order: the lap pass, the intervals, the record     *)
(*                  pass through a second reader, the lap table.           *)
(* The fields a message only passes on to its row (power, heart_rate,      *)
(* cadence, distance, the lap averages) take no part in any decision and   *)
(* are left out of messages and rows.                                      *)
(***************************************************************************)
EXTENDS Integers, Sequences, FiniteSets, TLC

\* ------------------------------------------------------------------ bounds
\* Instants are 0..MaxT seconds after the start of the recording.
MaxT == 1
\* total_timer_time / total_elapsed_time range over 0..MaxDur seconds.
MaxDur == 1
\* Longest lap-message stream.
MaxLaps == 2
\* Longest interval sequence handed to the classifier.
MaxIntervals == 3
\* Longest record-message stream.
MaxRecs == 2
\* Most messages (lap and record together) in the FIT file convert reads.
MaxMsgs == 2
\* SpecScan: instants 0..MaxScanT, at most MaxScanLen intervals (a longer time
\* line than MaxT over fewer intervals: room for a timestamp strictly between
\* two other instants).
MaxScanT == 2
MaxScanLen == 2

\* ------------------------------------------------------------ Python values
None == <<>>
PyInt(n) == <<"int", n>>
PyFloat(n) == <<"float", n>>
PyDatetime(t) == <<"datetime", t>>
PyStr(t) == <<"str", t>>

TypeOf(x) == IF x = None THEN "NoneType" ELSE x[1]
Val(x) == x[2]

Min(a, b) == IF a < b THEN a ELSE b
Max(a, b) == IF a > b THEN a ELSE b

Instants == {PyDatetime(t) : t \in 0..MaxT}
OptInstants == {None} \cup Instants
\* a truth test in place of the isinstance check
IsNonZero(x) == TypeOf(x) \in {"int", "float"} /\ Val(x) /= 0
\* lines 53, 55, 62, 64: isinstance(x, (int, float))
IsNumber(x) == TypeOf(x) \in {"int", "float"}

\* ------------------------------------------------- map_record_to_lap_index
\* line 93 with min and max exchanged one way or the other
ClampToLast(cur_idx, n) == Max(0, Max(cur_idx, n - 1))
ClampToFirst(cur_idx, n) == Min(0, Max(cur_idx, n - 1))
\* line 93: i = max(0, min(cur_idx, n - 1))
Clamp(cur_idx, n) == Max(0, Min(cur_idx, n - 1))

\* line 97 without the comparison with the end
ContainsAnyEnd(start, ts, end) == Val(start) <= Val(ts)
\* line 97 with the end exclusive
ContainsExclusive(start, ts, end) == Val(start) <= Val(ts) /\ Val(ts) < Val(end)
Contains(start, ts, end) == Val(start) <= Val(ts) /\ Val(ts) <= Val(end)

\* line 99 with >= for >
PastEndInclusive(ts, end) == Val(ts) >= Val(end)
\* line 99: ts > end
PastEnd(ts, end) == Val(ts) > Val(end)

\* line 102 without the comparison
OpenMatchAnyTime(start, ts) == start /= None
\* line 102: start is not None and ts >= start
OpenMatch(start, ts) == start /= None /\ Val(ts) >= Val(start)

\* line 110 returning the last lap when the scan ran off the end
NoMatchLastLap(lap_intervals, i) ==
    IF i >= Len(lap_intervals)
    THEN <<lap_intervals[Len(lap_intervals)][1], i>>
    ELSE <<None, i>>
\* line 110: return None, i (after the break of line 109 or the end of the loop)
NoMatch(lap_intervals, i) == <<None, i>>

\* lines 94-110: the while loop entered at scan position i; the value is the
\* returned pair <<lap_index or None, i>>.
RECURSIVE Scan(_, _, _)
Scan(ts, lap_intervals, i) ==
    IF ~(i < Len(lap_intervals))
    THEN NoMatch(lap_intervals, i)
    ELSE LET lap_id == lap_intervals[i + 1][1]
             start == lap_intervals[i + 1][2]
             end == lap_intervals[i + 1][3]
         IN  IF start /= None /\ end /= None
             THEN IF Contains(start, ts, end)
                  THEN <<lap_id, i>>
                  ELSE IF PastEnd(ts, end)
                       THEN Scan(ts, lap_intervals, i + 1)
                       ELSE NoMatch(lap_intervals, i)
             ELSE IF OpenMatch(start, ts)
                  THEN <<lap_id, i>>
                  ELSE Scan(ts, lap_intervals, i + 1)

\* lines 88-89 returning the cursor as line 93 would clamp it
map_record_clamping_always(ts, lap_intervals, cur_idx) ==
    IF ts = None \/ lap_intervals = <<>>
    THEN <<None, Clamp(cur_idx, Len(lap_intervals))>>
    ELSE Scan(ts, lap_intervals, Clamp(cur_idx, Len(lap_intervals)))
\* lines 83-110
map_record_to_lap_index(ts, lap_intervals, cur_idx) ==
    IF ts = None \/ lap_intervals = <<>>
    THEN <<None, cur_idx>>
    ELSE Scan(ts, lap_intervals, Clamp(cur_idx, Len(lap_intervals)))

\* ------------------------------------------------------------ collect_laps
\* lines 32-34: msg.get_value(name), None when the field is absent
safe_val(msg, name) == msg[name]

\* lines 36-42: None stays None, a datetime becomes its ISO-8601 string
iso_dt(dt) == IF dt = None THEN None ELSE PyStr(Val(dt))

\* start + timedelta(seconds=float(x))
AddSeconds(start, x) == PyDatetime(Val(start) + Val(x))

\* lines 52-59: end of the lap
LapEnd(lap) ==
    LET start == safe_val(lap, "start_time")
        total_timer_time == safe_val(lap, "total_timer_time")
        total_elapsed_time == safe_val(lap, "total_elapsed_time")
    IN  IF start /= None /\ IsNumber(total_timer_time)
        THEN AddSeconds(start, total_timer_time)
        ELSE IF start /= None /\ IsNumber(total_elapsed_time)
             THEN AddSeconds(start, total_elapsed_time)
             ELSE safe_val(lap, "timestamp")

\* lines 61-67 asking for total_elapsed_time before total_timer_time
LapDurationElapsedFirst(lap, end) ==
    LET start == safe_val(lap, "start_time")
        total_timer_time == safe_val(lap, "total_timer_time")
        total_elapsed_time == safe_val(lap, "total_elapsed_time")
    IN  IF IsNumber(total_elapsed_time)
        THEN PyFloat(Val(total_elapsed_time))
        ELSE IF IsNumber(total_timer_time)
             THEN PyFloat(Val(total_timer_time))
             ELSE IF start /= None /\ end /= None
                  THEN PyFloat(Val(end) - Val(start))
                  ELSE None
\* lines 61-67: duration of the lap, given its end
LapDuration(lap, end) ==
    LET start == safe_val(lap, "start_time")
        total_timer_time == safe_val(lap, "total_timer_time")
        total_elapsed_time == safe_val(lap, "total_elapsed_time")
    IN  IF IsNumber(total_timer_time)
        THEN PyFloat(Val(total_timer_time))
        ELSE IF IsNumber(total_elapsed_time)
             THEN PyFloat(Val(total_elapsed_time))
             ELSE IF start /= None /\ end /= None
                  THEN PyFloat(Val(end) - Val(start))
                  ELSE None

\* lines 47-78: the lap summary appended for the i-th message (i from 0)
MakeLap(i, lap) ==
    [lap_index |-> PyInt(i + 1),
     lap_start_time |-> safe_val(lap, "start_time"),
     lap_end_time |-> LapEnd(lap),
     lap_duration_s |-> LapDuration(lap, LapEnd(lap))]

\* line 80: the sort key, d["lap_start_time"] or 0 (None is falsy, a datetime
\* is always truthy)
SortKey(d) == IF d.lap_start_time = None THEN PyInt(0) ELSE d.lap_start_time

\* line 80 with <= for <
KeyLe(a, b) == Val(a) <= Val(b)
\* line 80: key(a) < key(b), defined between keys of one type only
KeyLt(a, b) == Val(a) < Val(b)

\* line 80: list.sort compares keys with <; an int and a datetime do not
\* compare (TypeError), and no comparison sort can order a list holding both
\* without comparing one with the other.
SortRaises(laps) ==
    \E p, q \in 1..Len(laps) : TypeOf(SortKey(laps[p])) /= TypeOf(SortKey(laps[q]))

\* line 80: list.sort is stable; d goes after every element whose key is not
\* greater than its own
RECURSIVE InsertLap(_, _)
InsertLap(sorted, d) ==
    IF sorted = <<>>
    THEN <<d>>
    ELSE LET last == sorted[Len(sorted)]
         IN  IF KeyLt(SortKey(d), SortKey(last))
             THEN Append(InsertLap(SubSeq(sorted, 1, Len(sorted) - 1), d), last)
             ELSE Append(sorted, d)

\* line 80: laps.sort(key=...)
RECURSIVE SortLaps(_)
SortLaps(laps) ==
    IF laps = <<>>
    THEN <<>>
    ELSE InsertLap(SortLaps(SubSeq(laps, 1, Len(laps) - 1)), laps[Len(laps)])

\* lines 164-166: the (lap_index, start, end) triples, in the order of laps
BuildIntervals(laps) ==
    [k \in 1..Len(laps) |->
        <<laps[k].lap_index, laps[k].lap_start_time, laps[k].lap_end_time>>]

\* lines 151-155: the rows of the lap table (header apart)
LapRows(laps) ==
    [k \in 1..Len(laps) |->
        [lap_index |-> laps[k].lap_index,
         lap_start_time |-> iso_dt(laps[k].lap_start_time),
         lap_end_time |-> iso_dt(laps[k].lap_end_time),
         lap_duration_s |-> laps[k].lap_duration_s]]

\* ------------------------------------------------------------------ inputs
\* absent, a malformed (non-numeric) value, or a number of seconds
OptNumbers == {None, PyStr(0)} \cup {PyInt(n) : n \in 0..MaxDur}

\* a decoded "lap" message: every field may be absent
LapMessages ==
    [start_time : OptInstants, total_timer_time : OptNumbers,
     total_elapsed_time : OptNumbers, timestamp : OptInstants]

\* a decoded "record" message
RecordMessages == [timestamp : OptInstants]

NoLapMessage ==
    [start_time |-> None, total_timer_time |-> None,
     total_elapsed_time |-> None, timestamp |-> None]

LapIds(m) == {PyInt(j) : j \in 1..m}

\* lap_index, start and end of the interval at 1-based position k
IdAt(s, k) == s[k][1]
StartAt(s, k) == s[k][2]
EndAt(s, k) == s[k][3]

\* the orders in which m laps numbered 1..m can stand
Perms(m) == {f \in [1..m -> 1..m] : \A p, q \in 1..m : p /= q => f[p] /= f[q]}

\* the sequence of m triples with lap_index f[k], start st[k] and end en[k]
IntervalSeq(m, f, st, en) == [k \in 1..m |-> <<PyInt(f[k]), st[k], en[k]>>]

\* sorted ascending by start, None first (the order line 80 is meant to give)
StartRank(x) == IF x = None THEN -1 ELSE Val(x)
SortedByStart(s) ==
    \A p, q \in 1..Len(s) : p < q => StartRank(StartAt(s, p)) <= StartRank(StartAt(s, q))

\* laps of equal start keep the order of their lap_index (a stable sort of
\* laps numbered in input order)
TiesInInputOrder(s) ==
    \A p, q \in 1..Len(s) :
        (p < q /\ StartAt(s, p) = StartAt(s, q)) => Val(IdAt(s, p)) < Val(IdAt(s, q))

\* what collect_laps followed by lines 164-166 can hand to write_records_csv:
\* sorted, stable, and the starts all absent or all present (a start_time of
\* any instant with a timestamp of any instant gives each such triple)
Returnable(s) ==
    /\ SortedByStart(s)
    /\ TiesInInputOrder(s)
    /\ \A p, q \in 1..Len(s) : (StartAt(s, p) = None) = (StartAt(s, q) = None)

\* sorted sequences of starts
OrderedStarts(m) ==
    {st \in [1..m -> OptInstants] :
        \A p, q \in 1..m : p < q => StartRank(st[p]) <= StartRank(st[q])}

\* "ordered lap intervals" (docstring, lines 84-87) of at most MaxIntervals laps
IsOrderedIntervalSeq(s) ==
    \E m \in 0..MaxIntervals :
        \E f \in Perms(m), st \in OrderedStarts(m), en \in [1..m -> OptInstants] :
            /\ s = IntervalSeq(m, f, st, en)
            /\ TiesInInputOrder(s)

\* ------------------------------------------------------------------- state
VARIABLES
    pc,             \* the function running, or how it ended
    lap,            \* the lap message at hand (line 47), in SpecLapFields
    laps,           \* list of lap summaries (line 46)
    n_lap_msgs,     \* lap messages read so far
    lap_intervals,  \* lines 164-166
    lap_rows,       \* data rows of <prefix>_laps.csv
    ts,             \* timestamp argument of map_record_to_lap_index
    cur_idx,        \* cursor argument of map_record_to_lap_index
    ret,            \* value returned by map_record_to_lap_index
    ptr,            \* line 118
    recs,           \* record messages read so far
    rec_rows,       \* data rows of <prefix>_records.csv
    steps,          \* executions of i += 1 (lines 100, 107) so far
    fit,            \* the FIT file at fit_path: the names of its messages
    fitfile,        \* line 158: messages the first reader has gone through
    fitfile_records \* line 169: messages the second reader has gone through

vars == <<pc, lap, laps, n_lap_msgs, lap_intervals, lap_rows, ts, cur_idx, ret,
          ptr, recs, rec_rows, steps, fit, fitfile, fitfile_records>>

lapVars == <<lap, laps, n_lap_msgs, lap_rows>>
callVars == <<ts, cur_idx, ret>>
recVars == <<ptr, recs, rec_rows, steps>>
fileVars == <<fit, fitfile, fitfile_records>>

\* the parts of the state a specification does not use stay as they are here
NoLaps == laps = <<>> /\ n_lap_msgs = 0 /\ lap_rows = <<>>
NoCall == ts = None /\ cur_idx = 0 /\ ret = <<None, 0>>
NoRecords == ptr = 0 /\ recs = <<>> /\ rec_rows = <<>> /\ steps = 0
NoFile == fit = <<>> /\ fitfile = 0 /\ fitfile_records = 0

\* ------------------------------------------------ collect_laps, one message
\* The body of the loop of collect_laps (lines 47-78) on one lap message.
InitLapFields ==
    /\ pc = "lap"
    /\ lap \in LapMessages
    /\ lap_intervals = <<>>
    /\ NoLaps /\ NoCall /\ NoRecords /\ NoFile

BuildLap ==
    /\ pc = "lap"
    /\ laps' = Append(laps, MakeLap(n_lap_msgs, lap))
    /\ n_lap_msgs' = n_lap_msgs + 1
    /\ pc' = "built"
    /\ UNCHANGED <<lap, lap_intervals, lap_rows, callVars, recVars, fileVars>>

NextLapFields == BuildLap

SpecLapFields == InitLapFields /\ [][NextLapFields]_vars

\* ------------------------------- collect_laps, intervals and write_laps_csv
InitLaps ==
    /\ pc = "collect"
    /\ lap = NoLapMessage
    /\ lap_intervals = <<>>
    /\ NoLaps /\ NoCall /\ NoRecords /\ NoFile

\* lines 47-78: one iteration of the loop over the lap messages
NextLap ==
    /\ pc = "collect"
    /\ n_lap_msgs < MaxLaps
    /\ \E msg \in LapMessages :
          laps' = Append(laps, MakeLap(n_lap_msgs, msg))
    /\ n_lap_msgs' = n_lap_msgs + 1
    /\ UNCHANGED <<pc, lap, lap_intervals, lap_rows, callVars, recVars, fileVars>>

\* lines 79-81: the stream is exhausted; the sort raises or collect_laps returns
SortAndReturn ==
    /\ pc = "collect"
    /\ IF SortRaises(laps)
       THEN /\ pc' = "TypeError"
            /\ laps' = laps
       ELSE /\ pc' = "collected"
            /\ laps' = SortLaps(laps)
    /\ UNCHANGED <<lap, n_lap_msgs, lap_intervals, lap_rows, callVars, recVars, fileVars>>

\* lines 164-166
MakeIntervals ==
    /\ pc = "collected"
    /\ lap_intervals' = BuildIntervals(laps)
    /\ pc' = "intervals"
    /\ UNCHANGED <<lapVars, callVars, recVars, fileVars>>

\* line 175, lines 136-155
write_laps_csv ==
    /\ pc = "intervals"
    /\ lap_rows' = LapRows(laps)
    /\ pc' = "done"
    /\ UNCHANGED <<lap, laps, n_lap_msgs, lap_intervals, callVars, recVars, fileVars>>

NextLaps == NextLap \/ SortAndReturn \/ MakeIntervals \/ write_laps_csv

SpecLaps == InitLaps /\ [][NextLaps]_vars

\* ------------------------------------------- map_record_to_lap_index, alone
InitClassify ==
    /\ pc = "call"
    /\ IsOrderedIntervalSeq(lap_intervals)
    /\ ts \in OptInstants
    /\ cur_idx \in -1..(MaxIntervals + 1)
    /\ ret = <<None, 0>>
    /\ lap = NoLapMessage
    /\ NoLaps /\ NoRecords /\ NoFile

\* lines 83-110: one call
Classify ==
    /\ pc = "call"
    /\ ret' = map_record_to_lap_index(ts, lap_intervals, cur_idx)
    /\ pc' = "returned"
    /\ UNCHANGED <<lapVars, lap_intervals, ts, cur_idx, recVars, fileVars>>

NextClassify == Classify

SpecClassify == InitClassify /\ [][NextClassify]_vars

\* ------------------- map_record_to_lap_index, alone, on a longer time line
ScanInstants == {PyDatetime(t) : t \in 0..MaxScanT}
OptScanInstants == {None} \cup ScanInstants

\* ordered lap intervals (docstring, lines 84-87) of at most MaxScanLen laps
\* over the instants 0..MaxScanT
IsScanIntervalSeq(s) ==
    \E m \in 0..MaxScanLen :
        \E f \in Perms(m), st \in [1..m -> OptScanInstants], en \in [1..m -> OptScanInstants] :
            /\ s = IntervalSeq(m, f, st, en)
            /\ SortedByStart(s)
            /\ TiesInInputOrder(s)

InitScan ==
    /\ pc = "call"
    /\ IsScanIntervalSeq(lap_intervals)
    /\ ts \in OptScanInstants
    /\ cur_idx \in -1..(MaxScanLen + 1)
    /\ ret = <<None, 0>>
    /\ lap = NoLapMessage
    /\ NoLaps /\ NoRecords /\ NoFile

NextScan == Classify

SpecScan == InitScan /\ [][NextScan]_vars

\* -------------------------------------------------------- write_records_csv
\* executions of i += 1 in one call: i changes in no other way between line 93
\* and the return
Increments(t, intervals, cursor) ==
    IF t = None \/ intervals = <<>>
    THEN 0
    ELSE map_record_to_lap_index(t, intervals, cursor)[2] - Clamp(cursor, Len(intervals))

\* lines 127-134: the row written for a record
RecordRow(rec, lap_idx) ==
    [timestamp |-> iso_dt(safe_val(rec, "timestamp")), lap_index |-> lap_idx]

\* line 127 writing a row only for a record that has a lap
WriteMatchedRow(rows, rec, lap_idx) ==
    IF lap_idx = None THEN rows ELSE Append(rows, RecordRow(rec, lap_idx))
\* line 127: w.writerow(...) adds the row at the end of the file
WriteRow(rows, rec, lap_idx) == Append(rows, RecordRow(rec, lap_idx))

\* line 118: the file is open, the header written, ptr = 0
InitRecords ==
    /\ pc = "records"
    /\ IsOrderedIntervalSeq(lap_intervals)
    /\ Returnable(lap_intervals)
    /\ lap = NoLapMessage
    /\ NoLaps /\ NoCall /\ NoRecords /\ NoFile

\* line 126 keeping a cursor one position beyond the returned one
NextRecordCursorAhead ==
    /\ pc = "records"
    /\ Len(recs) < MaxRecs
    /\ \E rec \in RecordMessages :
          LET r == map_record_to_lap_index(safe_val(rec, "timestamp"), lap_intervals, ptr)
          IN  /\ recs' = Append(recs, rec)
              /\ rec_rows' = WriteRow(rec_rows, rec, r[1])
              /\ steps' = steps + Increments(safe_val(rec, "timestamp"), lap_intervals, ptr)
              /\ ptr' = r[2] + 1
    /\ UNCHANGED <<pc, lapVars, lap_intervals, callVars, fileVars>>
\* lines 119-134: one iteration of the loop over the record messages
NextRecord ==
    /\ pc = "records"
    /\ Len(recs) < MaxRecs
    /\ \E rec \in RecordMessages :
          LET r == map_record_to_lap_index(safe_val(rec, "timestamp"), lap_intervals, ptr)
          IN  /\ recs' = Append(recs, rec)
              /\ rec_rows' = WriteRow(rec_rows, rec, r[1])
              /\ steps' = steps + Increments(safe_val(rec, "timestamp"), lap_intervals, ptr)
              /\ ptr' = r[2]
    /\ UNCHANGED <<pc, lapVars, lap_intervals, callVars, fileVars>>

NextRecords == NextRecord

SpecRecords == InitRecords /\ [][NextRecords]_vars

\* ------------------------------------------------------------------ convert
\* The FIT file is the sequence of the names of its messages, and a reader
\* (a FitFile object) is the number of messages it has gone through.  The
\* fields of a message are drawn when the one pass that uses them decodes
\* it: get_messages("lap") yields the lap messages only, and
\* get_messages("record") the record messages only.
MessageNames == {"lap", "record"}
FitFiles(n) == [1..n -> MessageNames]

\* lines 158, 161: a reader at the start of the file, collect_laps entered
InitConvert ==
    /\ pc = "collect"
    /\ \E n \in 0..MaxMsgs : fit \in FitFiles(n)
    /\ fitfile = 0
    /\ fitfile_records = 0
    /\ lap = NoLapMessage
    /\ lap_intervals = <<>>
    /\ NoLaps /\ NoCall /\ NoRecords

\* line 47: get_messages("lap") goes over a message of another name
LapPassOther ==
    /\ pc = "collect"
    /\ fitfile < Len(fit)
    /\ fit[fitfile + 1] /= "lap"
    /\ fitfile' = fitfile + 1
    /\ UNCHANGED <<pc, lapVars, lap_intervals, callVars, recVars, fit, fitfile_records>>

\* lines 47-78: get_messages("lap") yields the next lap message
LapPassLap ==
    /\ pc = "collect"
    /\ fitfile < Len(fit)
    /\ fit[fitfile + 1] = "lap"
    /\ \E msg \in LapMessages :
          laps' = Append(laps, MakeLap(n_lap_msgs, msg))
    /\ n_lap_msgs' = n_lap_msgs + 1
    /\ fitfile' = fitfile + 1
    /\ UNCHANGED <<pc, lap, lap_intervals, lap_rows, callVars, recVars, fit, fitfile_records>>

\* lines 79-81: the first reader is at the end of the file
EndLapPass ==
    /\ fitfile = Len(fit)
    /\ SortAndReturn

\* line 169 handing on the reader of the lap pass
OpenRecordsSameReader ==
    /\ pc = "intervals"
    /\ fitfile_records' = fitfile
    /\ pc' = "records"
    /\ UNCHANGED <<lapVars, lap_intervals, callVars, recVars, fit, fitfile>>
\* lines 169, 174, 118: a second reader at the start of the file,
\* write_records_csv entered (ptr = 0, header written)
OpenRecords ==
    /\ pc = "intervals"
    /\ fitfile_records' = 0
    /\ pc' = "records"
    /\ UNCHANGED <<lapVars, lap_intervals, callVars, recVars, fit, fitfile>>

\* line 119: get_messages("record") goes over a message of another name
RecordPassOther ==
    /\ pc = "records"
    /\ fitfile_records < Len(fit)
    /\ fit[fitfile_records + 1] /= "record"
    /\ fitfile_records' = fitfile_records + 1
    /\ UNCHANGED <<pc, lapVars, lap_intervals, callVars, recVars, fit, fitfile>>

\* lines 119-134: get_messages("record") yields the next record message
RecordPassRecord ==
    /\ pc = "records"
    /\ fitfile_records < Len(fit)
    /\ fit[fitfile_records + 1] = "record"
    /\ \E rec \in RecordMessages :
          LET r == map_record_to_lap_index(safe_val(rec, "timestamp"), lap_intervals, ptr)
          IN  /\ recs' = Append(recs, rec)
              /\ rec_rows' = WriteRow(rec_rows, rec, r[1])
              /\ steps' = steps + Increments(safe_val(rec, "timestamp"), lap_intervals, ptr)
              /\ ptr' = r[2]
    /\ fitfile_records' = fitfile_records + 1
    /\ UNCHANGED <<pc, lapVars, lap_intervals, callVars, fit, fitfile>>

\* line 119, 174: the second reader is at the end of the file,
\* write_records_csv returns
EndRecordPass ==
    /\ pc = "records"
    /\ fitfile_records = Len(fit)
    /\ pc' = "recorded"
    /\ UNCHANGED <<lapVars, lap_intervals, callVars, recVars, fileVars>>

\* line 175, lines 136-155
WriteLapsTable ==
    /\ pc = "recorded"
    /\ lap_rows' = LapRows(laps)
    /\ pc' = "done"
    /\ UNCHANGED <<lap, laps, n_lap_msgs, lap_intervals, callVars, recVars, fileVars>>

NextConvert ==
    \/ LapPassOther \/ LapPassLap \/ EndLapPass \/ MakeIntervals \/ OpenRecords
    \/ RecordPassOther \/ RecordPassRecord \/ EndRecordPass \/ WriteLapsTable

SpecConvert == InitConvert /\ [][NextConvert]_vars

\* ================================================================== claims
\* Positions in the formulas are 1-based (position k is scan position k - 1).
Bounded(s, k) == StartAt(s, k) /= None /\ EndAt(s, k) /= None
AllBounded(s) == \A k \in 1..Len(s) : Bounded(s, k)
\* no interval reaches beyond the start of a later one
NonOverlapping(s) ==
    \A p, q \in 1..Len(s) : p < q => Val(EndAt(s, p)) <= Val(StartAt(s, q))
\* t lies in interval k, both ends inclusive
Inside(s, k, t) == Val(StartAt(s, k)) <= Val(t) /\ Val(t) <= Val(EndAt(s, k))
\* interval k can take t: its start is present and not after t, and its end is
\* absent or not before t
Covers(s, k, t) ==
    /\ StartAt(s, k) /= None
    /\ Val(StartAt(s, k)) <= Val(t)
    /\ (EndAt(s, k) = None \/ Val(t) <= Val(EndAt(s, k)))
\* first position the scan of a call looks at: the cursor brought into the
\* sequence
FirstScanned(s, cursor) ==
    IF cursor < 0 THEN 1 ELSE IF cursor > Len(s) - 1 THEN Len(s) ELSE cursor + 1
\* least element of a non-empty set of positions
Least(S) == CHOOSE k \in S : \A j \in S : k <= j

\* the case of C1: sorted, non-overlapping, bounded intervals, a timestamp in
\* interval k and a starting cursor at or before it
C1_Case(k) ==
    /\ pc = "returned"
    /\ ts /= None
    /\ AllBounded(lap_intervals)
    /\ NonOverlapping(lap_intervals)
    /\ Inside(lap_intervals, k, ts)
    /\ cur_idx <= k - 1

\* the intervals between the cursor and k that end at the instant ts
C1_EndingAt(k) ==
    {j \in FirstScanned(lap_intervals, cur_idx)..(k - 1) : EndAt(lap_intervals, j) = ts}

\* C1 as stated: for sorted non-overlapping bounded intervals, a timestamp t
\* with start_k <= t <= end_k and a starting cursor <= k, the call returns the
\* lap_index of interval k, also when t = start_k is the end of the interval
\* before.
C1_AsStated ==
    \A k \in 1..Len(lap_intervals) :
        C1_Case(k) => ret[1] = IdAt(lap_intervals, k)

\* C1 amended: the call returns the lap_index (and position) of interval k,
\* except when an interval between the cursor and k ends at the instant t
\* (then t = start_k): the first such interval is returned instead.
C1_InsideIntervalK ==
    \A k \in 1..Len(lap_intervals) :
        C1_Case(k) =>
            IF C1_EndingAt(k) = {}
            THEN ret = <<IdAt(lap_intervals, k), k - 1>>
            ELSE ret = <<IdAt(lap_intervals, Least(C1_EndingAt(k))),
                         Least(C1_EndingAt(k)) - 1>>

\* C1 witness: the scan starts at the first interval, passes it and returns
\* the third, whose lap_index is not its position.
C1_Witness ==
    /\ Len(lap_intervals) = 3
    /\ C1_Case(3)
    /\ cur_idx = 0
    /\ C1_EndingAt(3) = {}
    /\ ret[1] = IdAt(lap_intervals, 3)
    /\ ret[1] /= PyInt(3)

\* the case of C6: an interval sequence collect_laps can return whose last
\* interval has an end, and a timestamp after that end
C6_Case ==
    /\ pc = "returned"
    /\ ts /= None
    /\ Len(lap_intervals) > 0
    /\ Returnable(lap_intervals)
    /\ EndAt(lap_intervals, Len(lap_intervals)) /= None
    /\ Val(ts) > Val(EndAt(lap_intervals, Len(lap_intervals)))

\* the intervals the scan can reach that cover ts
C6_Covering ==
    {j \in FirstScanned(lap_intervals, cur_idx)..Len(lap_intervals) :
        Covers(lap_intervals, j, ts)}

\* C6 as stated: a timestamp after the end of the last interval is classified
\* as none from every starting cursor, also when an earlier interval ends
\* later than the last one.
C6_AsStated == C6_Case => ret[1] = None

\* C6 amended: a timestamp after the end of the last interval is classified as
\* none unless an interval at or after the starting cursor covers it (an
\* earlier interval with a later or absent end); then the first such interval
\* is returned.
C6_AfterLastEnd ==
    C6_Case =>
        IF C6_Covering = {}
        THEN ret[1] = None
        ELSE ret = <<IdAt(lap_intervals, Least(C6_Covering)), Least(C6_Covering) - 1>>

\* C6 witness: several bounded intervals, all ended before ts, scanned from the
\* first: the scan runs off the end and returns none.
C6_Witness ==
    /\ C6_Case
    /\ Len(lap_intervals) >= 2
    /\ AllBounded(lap_intervals)
    /\ cur_idx = 0
    /\ C6_Covering = {}
    /\ ret = <<None, Len(lap_intervals)>>

\* the case of C7: the first interval of a sorted sequence has a start and
\* the timestamp is before it
C7_Case ==
    /\ pc = "returned"
    /\ ts /= None
    /\ Len(lap_intervals) > 0
    /\ StartAt(lap_intervals, 1) /= None
    /\ Val(ts) < Val(StartAt(lap_intervals, 1))

\* C7: a timestamp strictly before the start of the first interval is
\* classified as none, from every starting cursor, whatever the ends are.
C7_BeforeFirstStart == C7_Case => ret[1] = None

\* C7 witness: such a call over intervals of which one has no end and another
\* ends before it starts, from a cursor beyond the first interval.
C7_Witness ==
    /\ C7_Case
    /\ cur_idx >= 1
    /\ \E k \in 1..Len(lap_intervals) : EndAt(lap_intervals, k) = None
    /\ \E k \in 1..Len(lap_intervals) :
          /\ EndAt(lap_intervals, k) /= None
          /\ Val(EndAt(lap_intervals, k)) < Val(StartAt(lap_intervals, k))
    /\ ret[1] = None

\* timestamp of the n-th record read, and the lap_index written for it
StampOf(n) == recs[n].timestamp
LapOf(n) == rec_rows[n].lap_index
\* the timestamps read so far never decrease (records without one apart)
NonDecreasing ==
    \A p, q \in 1..Len(recs) :
        (p < q /\ StampOf(p) /= None /\ StampOf(q) /= None)
            => Val(StampOf(p)) <= Val(StampOf(q))
AllStamped == \A n \in 1..Len(recs) : StampOf(n) /= None

\* the case of C2 for the record read last: a stream of non-decreasing
\* timestamps, interval k with a start and no end, every interval before it
\* bounded and ended before the timestamp, and the timestamp not before the
\* start of k
C2_Case(k) ==
    LET n == Len(recs)
    IN  /\ n > 0
        /\ Len(rec_rows) = n
        /\ AllStamped
        /\ NonDecreasing
        /\ StartAt(lap_intervals, k) /= None
        /\ EndAt(lap_intervals, k) = None
        /\ \A j \in 1..(k - 1) :
              /\ Bounded(lap_intervals, j)
              /\ Val(EndAt(lap_intervals, j)) < Val(StampOf(n))
        /\ Val(StampOf(n)) >= Val(StartAt(lap_intervals, k))

\* C2 as stated: every sample at or after the start T0 of an open-ended lap
\* (all earlier laps bounded and over) is assigned that lap, whatever samples
\* came before it, samples before T0 included, and whatever intervals follow.
C2_AsStated ==
    \A k \in 1..Len(lap_intervals) :
        C2_Case(k) => LapOf(Len(recs)) = IdAt(lap_intervals, k)

\* C3: the record table holds one row per record read, in arrival order, and
\* row i carries the timestamp of record i (as ISO text, empty when absent)
\* with a lap_index that is none or the lap_index of an interval.
C3_OneRowPerRecord ==
    /\ Len(rec_rows) = Len(recs)
    /\ \A n \in 1..Len(recs) :
          /\ rec_rows[n].timestamp =
                IF StampOf(n) = None THEN None ELSE PyStr(Val(StampOf(n)))
          /\ \/ LapOf(n) = None
             \/ \E k \in 1..Len(lap_intervals) : LapOf(n) = IdAt(lap_intervals, k)

\* C3 witness: two records read, the first without timestamp, the second
\* unmatched, one row each.
C3_Witness ==
    /\ Len(recs) = 2
    /\ Len(rec_rows) = 2
    /\ Len(lap_intervals) > 0
    /\ StampOf(1) = None
    /\ StampOf(2) /= None
    /\ LapOf(1) = None
    /\ LapOf(2) = None

\* C4: over a stream of N non-decreasing timestamps and M intervals, i += 1
\* runs at most N + M times in all.
C4_StepBound ==
    (AllStamped /\ NonDecreasing) => steps <= Len(recs) + Len(lap_intervals)

\* C4 witness: the first record sends the scan over all three intervals and
\* off the end, the second re-scans the last interval after the clamp.
C4_Witness ==
    /\ AllStamped /\ NonDecreasing
    /\ Len(lap_intervals) = 3
    /\ Len(recs) = 2
    /\ steps = 4
    /\ ptr = 3

\* the case of C5 for the record read last: interval k ends at E, interval
\* k + 1 starts at E, and the record's timestamp is E
C5_Case(k) ==
    LET n == Len(recs)
    IN  /\ n > 0
        /\ Len(rec_rows) = n
        /\ NonDecreasing
        /\ k + 1 <= Len(lap_intervals)
        /\ EndAt(lap_intervals, k) /= None
        /\ StartAt(lap_intervals, k + 1) = EndAt(lap_intervals, k)
        /\ StampOf(n) = EndAt(lap_intervals, k)

Returned == pc \in {"collected", "intervals", "done"}

\* What convert hands to write_records_csv is an interval sequence of the kind
\* the record pass is started with: sorted, stable, starts all absent or all
\* present.
IntervalsAreReturnable ==
    pc \in {"intervals", "done"} =>
        /\ Len(lap_intervals) = n_lap_msgs
        /\ Returnable(lap_intervals)

\* C8, the states: while the messages are read the laps stand in input order,
\* numbered by position; once collect_laps has returned there is one lap per
\* message, the lap_index values are exactly 1..M, laps of equal start stand
\* in input order, and the rows of the lap table follow the order of laps.
C8_Numbering ==
    /\ Len(laps) = n_lap_msgs
    /\ pc = "collect" => \A k \in 1..Len(laps) : laps[k].lap_index = PyInt(k)
    /\ Returned =>
          /\ {laps[k].lap_index : k \in 1..Len(laps)} = {PyInt(j) : j \in 1..n_lap_msgs}
          /\ \A p, q \in 1..Len(laps) :
                (p < q /\ laps[p].lap_start_time = laps[q].lap_start_time)
                    => Val(laps[p].lap_index) < Val(laps[q].lap_index)
    /\ pc = "done" =>
          /\ Len(lap_rows) = Len(laps)
          /\ \A k \in 1..Len(laps) : lap_rows[k].lap_index = laps[k].lap_index

\* C8, the sort: every lap is after the sort what it was before it, its
\* lap_index included.
C8_SortKeepsLaps ==
    (pc = "collect" /\ pc' = "collected") =>
        \A k \in 1..Len(laps) : \E p \in 1..Len(laps') : laps'[p] = laps[k]

\* C8: collect_laps returns one lap per lap message, numbered 1..M by input
\* position; the sort moves laps without renumbering them and keeps laps of
\* equal start in input order; the lap table follows the sorted order.
C8_OneLapPerMessage == []C8_Numbering /\ [][C8_SortKeepsLaps]_vars

\* C8 witness: two laps read, the second starting first: the sort has put it
\* first with its lap_index 2, and the lap table is written in that order.
C8_Witness ==
    /\ pc = "done"
    /\ Len(laps) = 2
    /\ laps[1].lap_index = PyInt(2)
    /\ laps[2].lap_index = PyInt(1)
    /\ lap_rows[1].lap_index = PyInt(2)

\* C9 as stated: collect_laps raises no error whatever fields are absent, and
\* in its result the laps without start come first, the others after them by
\* non-decreasing start.
C9_AsStated ==
    /\ pc /= "TypeError"
    /\ Returned =>
          \A p, q \in 1..Len(laps) :
              p < q =>
                  \/ laps[p].lap_start_time = None
                  \/ /\ laps[q].lap_start_time /= None
                     /\ Val(laps[p].lap_start_time) <= Val(laps[q].lap_start_time)

\* a number, as the lap message carries it
Numeric(x) == x /= None /\ x[1] \in {"int", "float"}

\* C10: end is start + total_timer_time when that is numeric (zero included)
\* and start is present; else start + total_elapsed_time when that is numeric
\* and start is present; else the timestamp field, absent if that is absent.
C10_EndChain ==
    pc = "built" =>
        LET end == laps[1].lap_end_time
        IN  /\ (lap.start_time /= None /\ Numeric(lap.total_timer_time))
                => end = PyDatetime(Val(lap.start_time) + Val(lap.total_timer_time))
            /\ (/\ lap.start_time /= None
                /\ ~Numeric(lap.total_timer_time)
                /\ Numeric(lap.total_elapsed_time))
                => end = PyDatetime(Val(lap.start_time) + Val(lap.total_elapsed_time))
            /\ (\/ lap.start_time = None
                \/ ~Numeric(lap.total_timer_time) /\ ~Numeric(lap.total_elapsed_time))
                => end = lap.timestamp

\* C10 witness: a lap with start, a total_timer_time of zero, another elapsed
\* time and another timestamp: its end is its start.
C10_Witness ==
    /\ pc = "built"
    /\ lap.start_time /= None
    /\ lap.total_timer_time = PyInt(0)
    /\ lap.total_elapsed_time = PyInt(1)
    /\ lap.timestamp /= None
    /\ lap.timestamp /= lap.start_time
    /\ laps[1].lap_end_time = lap.start_time

\* C11: a lap with lap_start_time and lap_end_time both present has
\* lap_duration_s = lap_end_time - lap_start_time in seconds, whichever
\* branches gave the end and the duration; and lap_duration_s is absent
\* exactly when neither total_timer_time nor total_elapsed_time is numeric
\* and the start or the end is absent.
C11_DurationIsEndMinusStart ==
    pc = "built" =>
        LET d == laps[1]
        IN  /\ (d.lap_start_time /= None /\ d.lap_end_time /= None)
                => /\ d.lap_duration_s /= None
                   /\ Val(d.lap_duration_s) = Val(d.lap_end_time) - Val(d.lap_start_time)
            /\ (d.lap_duration_s = None)
                <=> /\ ~Numeric(lap.total_timer_time)
                    /\ ~Numeric(lap.total_elapsed_time)
                    /\ (d.lap_start_time = None \/ d.lap_end_time = None)

\* C11 witness: no numeric timer or elapsed time, a start and a later
\* timestamp: the end is the timestamp and the duration is their difference.
C11_Witness ==
    /\ pc = "built"
    /\ ~Numeric(lap.total_timer_time)
    /\ ~Numeric(lap.total_elapsed_time)
    /\ lap.start_time /= None
    /\ lap.timestamp /= None
    /\ Val(lap.timestamp) > Val(lap.start_time)
    /\ laps[1].lap_end_time = lap.timestamp
    /\ laps[1].lap_duration_s = PyFloat(Val(lap.timestamp) - Val(lap.start_time))

\* messages of the given name among the first n of the file
CountOf(name, n) == Cardinality({k \in 1..n : fit[k] = name})

\* C12 as stated: a file without lap messages gives an empty interval
\* sequence, a lap table without rows, and one row per record, each with a
\* none lap_index; a file without record messages gives a record table
\* without rows, and its lap table is still written (convert does not end
\* without it), one row per lap message.
C12_AsStated ==
    /\ CountOf("lap", Len(fit)) = 0 =>
          /\ pc /= "TypeError"
          /\ lap_intervals = <<>>
          /\ lap_rows = <<>>
          /\ pc \in {"recorded", "done"} => Len(rec_rows) = CountOf("record", Len(fit))
          /\ \A n \in 1..Len(rec_rows) : LapOf(n) = None
    /\ CountOf("record", Len(fit)) = 0 =>
          /\ pc /= "TypeError"
          /\ rec_rows = <<>>
          /\ pc = "done" => Len(lap_rows) = CountOf("lap", Len(fit))

\* the record pass has begun: write_records_csv is entered, or over
C13_RecordPassBegun == pc \in {"records", "recorded", "done"}

\* C13, the order: when the record pass begins the first reader has gone
\* through the whole file, every lap message has its lap, and the interval
\* sequence is the projection of the laps, sorted by start.
C13_LapsFirst ==
    (C13_RecordPassBegun \/ Len(recs) > 0) =>
        /\ fitfile = Len(fit)
        /\ Len(laps) = CountOf("lap", Len(fit))
        /\ Len(lap_intervals) = Len(laps)
        /\ \A k \in 1..Len(laps) :
              lap_intervals[k] =
                  <<laps[k].lap_index, laps[k].lap_start_time, laps[k].lap_end_time>>
        /\ SortedByStart(lap_intervals)

\* C13, the second reader: the records read are those among the messages the
\* second reader has gone through, from the first message of the file on,
\* and all the records of the file once write_records_csv has returned.
C13_OwnReader ==
    /\ pc = "records" => Len(recs) = CountOf("record", fitfile_records)
    /\ pc \in {"recorded", "done"} =>
          /\ fitfile_records = Len(fit)
          /\ Len(recs) = CountOf("record", Len(fit))

\* C13, the steps: once the record pass has begun no step changes the
\* interval sequence, the laps or the position of the first reader.
C13_ReadOnly ==
    C13_RecordPassBegun =>
        /\ lap_intervals' = lap_intervals
        /\ laps' = laps
        /\ fitfile' = fitfile

\* C13: in every run of convert the lap messages are all extracted, sorted
\* and projected into the interval sequence before the first record is
\* classified; the interval sequence does not change while records are
\* classified; and the record pass reads through a reader of its own,
\* wherever the reader of the lap pass stands.
C13_TwoPasses == [](C13_LapsFirst /\ C13_OwnReader) /\ [][C13_ReadOnly]_vars

\* C13 witness: the file holds a record message and then a lap message; the
\* run is over and the record has been assigned that lap.
C13_Witness ==
    /\ pc = "done"
    /\ fit = <<"record", "lap">>
    /\ Len(recs) = 1
    /\ Len(lap_intervals) = 1
    /\ LapOf(1) = PyInt(1)

\* C14 as stated: over a stream of non-decreasing timestamps the cursor never
\* goes back: the cursor each call returns (kept in ptr) is greater than or
\* equal to the one the call before returned.
C14_AsStated == [][(AllStamped' /\ NonDecreasing') => ptr' >= ptr]_vars

\* the scan goes past interval j: a bounded interval that ts is after
\* (lines 99-101), or one without end that cannot take ts (lines 105-108)
C15_Passes(j) ==
    IF Bounded(lap_intervals, j)
    THEN Val(ts) > Val(EndAt(lap_intervals, j)) /\ ~Inside(lap_intervals, j, ts)
    ELSE StartAt(lap_intervals, j) = None \/ Val(ts) < Val(StartAt(lap_intervals, j))

\* the case of C15: the call has scanned up to position p, a bounded interval
\* whose start is after ts
C15_Case(p) ==
    /\ pc = "returned"
    /\ ts /= None
    /\ FirstScanned(lap_intervals, cur_idx) <= p
    /\ \A j \in FirstScanned(lap_intervals, cur_idx)..(p - 1) : C15_Passes(j)
    /\ Bounded(lap_intervals, p)
    /\ Val(ts) < Val(StartAt(lap_intervals, p))

\* C15 as stated: scanning a bounded interval at position p with ts before
\* its start, the call stops and returns (none, p), also when the interval
\* ends before it starts.
C15_AsStated ==
    \A p \in 1..Len(lap_intervals) :
        C15_Case(p) => ret = <<None, p - 1>>

\* C15 amended: the call stops and returns (none, p) when ts is not after the
\* end of the interval either; when the interval ends before it starts and
\* ts is after its end, the scan goes on: the call returns none with a
\* cursor beyond p.
C15_StopsBeforeStart ==
    \A p \in 1..Len(lap_intervals) :
        C15_Case(p) =>
            IF Val(ts) <= Val(EndAt(lap_intervals, p))
            THEN ret = <<None, p - 1>>
            ELSE ret[1] = None /\ ret[2] > p - 1

\* C15 witness: the scan passes a first interval and stops at the second,
\* which ends before it starts, with ts on its end.
C15_Witness ==
    /\ Len(lap_intervals) = 2
    /\ cur_idx = 0
    /\ C15_Case(2)
    /\ Val(EndAt(lap_intervals, 2)) < Val(StartAt(lap_intervals, 2))
    /\ ts = EndAt(lap_intervals, 2)
    /\ ret = <<None, 1>>

\* the records read so far that have a timestamp, and their rows
C16_Stamped == SelectSeq(recs, LAMBDA rec : rec.timestamp /= None)
C16_StampedRows == SelectSeq(rec_rows, LAMBDA row : row.timestamp /= None)

\* the lap_index values the loop of write_records_csv gives the records
\* stream[k], stream[k + 1], ... when it comes to stream[k] with this cursor
RECURSIVE C16_Loop(_, _, _)
C16_Loop(stream, k, cursor) ==
    IF k > Len(stream)
    THEN <<>>
    ELSE LET r == map_record_to_lap_index(stream[k].timestamp, lap_intervals, cursor)
         IN  <<r[1]>> \o C16_Loop(stream, k + 1, r[2])

\* C16, the step: reading a record without timestamp, or any record when the
\* interval sequence is empty, writes a none lap_index and leaves ptr exactly
\* as it was.
C16_CursorKept ==
    (/\ Len(recs') = Len(recs) + 1
     /\ \/ recs'[Len(recs')].timestamp = None
        \/ lap_intervals = <<>>)
        => /\ ptr' = ptr
           /\ rec_rows'[Len(rec_rows')].lap_index = None

\* C16, the stream: the records that have a timestamp are classified as they
\* are when the records without timestamp are taken out of the stream (there
\* is nothing to compare when every record has one).
C16_SameAsWithout ==
    \/ C16_Stamped = recs
    \/ LET rows == C16_StampedRows
           without == C16_Loop(C16_Stamped, 1, 0)
       IN  /\ Len(rows) = Len(without)
           /\ \A n \in 1..Len(rows) : rows[n].lap_index = without[n]

\* C16: with an absent timestamp or an empty interval sequence the call
\* returns none and the very cursor it was given, neither clamped nor
\* advanced; a record without timestamp in the stream changes nothing in the
\* classification of the records after it.
C16_AbsentKeepsCursor == []C16_SameAsWithout /\ [][C16_CursorKept]_vars

\* C16 witness: the first record sent the scan off the end (ptr = M, beyond
\* the last position), the second has no timestamp: ptr is still M.
C16_Witness ==
    /\ Len(recs) = 2
    /\ Len(lap_intervals) >= 2
    /\ StampOf(1) /= None
    /\ StampOf(2) = None
    /\ LapOf(2) = None
    /\ ptr = Len(lap_intervals)

\* C17: whenever the call returns a lap_index that is not none, the cursor
\* returned with it is a position of the sequence, the interval there
\* carries that lap_index, its start is present and not after ts, and its
\* end is absent or not before ts; so no lap without start is ever assigned.
C17_AssignedIntervalCovers ==
    (pc = "returned" /\ ret[1] /= None) =>
        /\ ts /= None
        /\ ret[2] \in 0..(Len(lap_intervals) - 1)
        /\ IdAt(lap_intervals, ret[2] + 1) = ret[1]
        /\ StartAt(lap_intervals, ret[2] + 1) /= None
        /\ Val(StartAt(lap_intervals, ret[2] + 1)) <= Val(ts)
        /\ \/ EndAt(lap_intervals, ret[2] + 1) = None
           \/ Val(EndAt(lap_intervals, ret[2] + 1)) >= Val(ts)

\* C17 witness: a call from a cursor before the sequence scans a lap without
\* start (which could take ts by its end), then a bounded lap that is over,
\* and returns the third.
C17_Witness ==
    /\ pc = "returned"
    /\ ts /= None
    /\ Len(lap_intervals) = 3
    /\ cur_idx = -1
    /\ StartAt(lap_intervals, 1) = None
    /\ EndAt(lap_intervals, 1) = ts
    /\ Bounded(lap_intervals, 2)
    /\ Val(EndAt(lap_intervals, 2)) < Val(ts)
    /\ ret = <<IdAt(lap_intervals, 3), 2>>

\* no interval has a start and no end
C18_NoOpenLap ==
    \A k \in 1..Len(lap_intervals) :
        ~(StartAt(lap_intervals, k) /= None /\ EndAt(lap_intervals, k) = None)

\* a step of the loop that reads a record, the stream being non-decreasing
\* with it: the row written for the record carries the lap_index of the call
\* from cursor 0
C18_StepFromZero ==
    (/\ Len(recs') = Len(recs) + 1
     /\ NonDecreasing'
     /\ C18_NoOpenLap)
        => /\ Len(rec_rows') = Len(recs')
           /\ rec_rows'[Len(recs')].lap_index =
                 map_record_to_lap_index(recs'[Len(recs')].timestamp, lap_intervals, 0)[1]

====
